---- MODULE Spec2Model ----
(***************************************************************************)
(* Model of capa/features/extractors/dotnetfile.py: the file-level feature *)
(* extractor for .NET binaries.  The state is one DotnetFileFeatureExtractor*)
(* (its bound binary `pe`) together with the outcome of the last facade    *)
(* call.  Feature streams are bags of (kind, value, addr) records: the     *)
(* consumer sees an unordered stream, and one handler iterates a Python    *)
(* set, whose order is unspecified.                                        *)
(*                                                                         *)
(* Names are sequences of one-character strings, so that formatting and    *)
(* suffix tests are computed and not assumed.                              *)
(***************************************************************************)
EXTENDS Bags, FiniteSets, Integers, Sequences, TLC

VARIABLES
    pe,          \* self.pe: the binary bound at construction
    last,        \* the last facade call and how it ended
    firstFile,   \* what the first extract_file_features call yielded
    firstGlobal  \* what the first extract_global_features call yielded

vars == <<pe, last, firstFile, firstGlobal>>

(***************************************************************************)
(* Bounds of the input space.                                              *)
(***************************************************************************)
\* the largest number of metadata rows (over all tables) of a modelled binary
MaxRows == 2

(***************************************************************************)
(* Program constants.                                                      *)
(***************************************************************************)
OPTIONAL_HEADER_MAGIC_PE == 267
OPTIONAL_HEADER_MAGIC_PE_PLUS == 523
OPTIONAL_HEADER_MAGIC_ROM == 263
TypeRefNumber == 1
TypeDefNumber == 2
MethodDefNumber == 6
MemberRefNumber == 10
ImplMapNumber == 28
TokenShift == 16777216

\* a constant text is a one-piece sequence, a name a sequence of characters
Text(s) == <<s>>

OS_ANY == Text("any")
ARCH_ANY == Text("any")
ARCH_I386 == Text("i386")
ARCH_AMD64 == Text("amd64")
FORMAT_DOTNET == Text("dotnet")
MIXED_MODE == Text("mixed mode")

(***************************************************************************)
(* Small vocabularies of names found in the tables.                        *)
(***************************************************************************)
NsSystem == <<"S", "y", "s">>
NsSystemIO == <<"S", "y", "s", ".", "I", "O">>
Namespaces == {<<>>, NsSystem, NsSystemIO}
TypeNames == {<<"F", "i", "l", "e">>}
MethodNames == {<<"O", "p", "e", "n">>}
Symbols == {<<"R", "d">>, <<"R", "d", "A">>}
Kernel32 == <<"k", "3", "2">>
Args == {0}

Range(s) == {s[i] : i \in DOMAIN s}

SeqToBag(s) == [f \in Range(s) |-> Cardinality({i \in DOMAIN s : s[i] = f})]

MinOf(S) == CHOOSE x \in S : \A y \in S : x <= y

Feature(kind, value, addr) == [kind |-> kind, value |-> value, addr |-> addr]

\* what a generator produced: the features yielded, and whether it ended by raising
Yielded(feats, exc) == [feats |-> feats, exc |-> exc]

NoError == "ok"

(***************************************************************************)
(* The parsed binary (dnfile.dnPE), as the parser exposes it.              *)
(***************************************************************************)
\* a TypeDef or TypeRef row; readable is FALSE for a row whose columns cannot be read
TypeRows(readables) ==
    [TypeNamespace : Namespaces, TypeName : TypeNames, readable : readables]

\* a MemberRef row: its parent (a coded index: table and 1-based row) and its name;
\* the parent TypeRef row 1 dangles in a binary without TypeRef rows
MemberRefRows ==
    [Class : {[table |-> "TypeRef", row_index |-> 1],
              [table |-> "TypeDef", row_index |-> 1]},
     Name : MethodNames]

\* an ImplMap row: its module reference (1-based row of ModuleRef; row 2 does not
\* exist) and the symbol
ImplMapRows ==
    [ImportScope : {1}, ImportName : Symbols]
        \cup [ImportScope : {2}, ImportName : {<<"R", "d">>}]

PeTypes == {OPTIONAL_HEADER_MAGIC_PE, OPTIONAL_HEADER_MAGIC_PE_PLUS, OPTIONAL_HEADER_MAGIC_ROM}

\* the binaries with at most MaxRows rows in the TypeDef, TypeRef, MemberRef and
\* ImplMap tables together, a type row being readable as readables allows; a
\* binary either omits its empty TypeDef and TypeRef tables or holds them empty
Binaries(readables) ==
    UNION {UNION {UNION {UNION {
        {[net |-> TRUE,
          PE_TYPE |-> t,
          CLR_32BITREQUIRED |-> f32,
          CLR_ILONLY |-> il,
          EntryPointTokenOrRva |-> MethodDefNumber * TokenShift + 1,
          MajorRuntimeVersion |-> 2,
          MinorRuntimeVersion |-> 5,
          Version |-> <<118, 52, 0, 0>>,
          hasTypeDef |-> nd > 0 \/ ~omits,
          hasTypeRef |-> nr > 0 \/ ~omits,
          TypeDef |-> td,
          TypeRef |-> tr,
          MemberRef |-> mr,
          ImplMap |-> im,
          MethodDef |-> <<[TypeNamespace |-> NsSystem, TypeName |-> <<"F", "i", "l", "e">>,
                           Name |-> <<"O", "p", "e", "n">>]>>,
          ModuleRef |-> <<[Name |-> Kernel32]>>,
          strings |-> <<[s |-> <<"h", "i", "!", "!">>, offset |-> 64]>>] :
            t \in PeTypes, f32 \in BOOLEAN, il \in BOOLEAN,
            omits \in (IF nd = 0 \/ nr = 0 THEN BOOLEAN ELSE {FALSE}),
            td \in [1..nd -> TypeRows(readables)],
            tr \in [1..nr -> TypeRows(readables)],
            mr \in [1..nm -> MemberRefRows],
            im \in [1..ni -> ImplMapRows]} :
        ni \in 0..(MaxRows - nd - nr - nm)} :
        nm \in 0..(MaxRows - nd - nr)} :
        nr \in 0..(MaxRows - nd)} :
        nd \in 0..MaxRows}

(***************************************************************************)
(* Helpers of capa.features.extractors.dnfile.helpers and                  *)
(* capa.features.extractors.helpers.                                       *)
(***************************************************************************)
\* (table << 24) | rid; the low 24 bits of table << 24 are zero and rid < 2^24
\* here, so the bitwise or is the sum (table numbers are below 2^6: no overflow)
calculate_dotnet_token_value(table, rid) == table * TokenShift + rid

\* the rows of the named table in physical order, none when the table is absent
iter_dotnet_table(p, name) ==
    CASE name = "TypeDef" -> IF p.hasTypeDef THEN p.TypeDef ELSE <<>>
      [] name = "TypeRef" -> IF p.hasTypeRef THEN p.TypeRef ELSE <<>>
      [] name = "MemberRef" -> p.MemberRef
      [] name = "ImplMap" -> p.ImplMap
      [] name = "MethodDef" -> p.MethodDef

\* DnClass.format_name: name alone when the namespace is empty, else namespace.name
format_name(namespace, name) ==
    IF namespace = <<>> THEN name ELSE namespace \o <<".">> \o name

\* str(DnMethod): formatted type name, "::", method name
format_method(namespace, typename, methodname) ==
    format_name(namespace, typename) \o <<":", ":">> \o methodname

is_dotnet_mixed_mode(p) == ~p.CLR_ILONLY

\* the positions of rows that are in keep, in order
KeptPositions(rows, keep) ==
    SelectSeq([i \in 1..Len(rows) |-> i], LAMBDA i : i \in keep)

\* MemberRef rows whose parent resolves to a TypeRef row, joined with it; a parent
\* in another table, a dangling parent or an unreadable parent gives no import
get_dotnet_managed_imports(p) ==
    LET rows == iter_dotnet_table(p, "MemberRef")
        refs == iter_dotnet_table(p, "TypeRef")
        resolves(i) == /\ rows[i].Class.table = "TypeRef"
                       /\ rows[i].Class.row_index \in DOMAIN refs
                       /\ refs[rows[i].Class.row_index].readable
        kept == KeptPositions(rows, {i \in DOMAIN rows : resolves(i)})
        method(i) == LET parent == refs[rows[i].Class.row_index]
                     IN  [name |-> format_method(parent.TypeNamespace, parent.TypeName,
                                                 rows[i].Name),
                          token |-> calculate_dotnet_token_value(MemberRefNumber, i)]
    IN  [k \in 1..Len(kept) |-> method(kept[k])]

\* ImplMap rows joined with their ModuleRef row; a dangling module reference gives
\* no import for the row
get_dotnet_unmanaged_imports(p) ==
    LET rows == iter_dotnet_table(p, "ImplMap")
        resolves(i) == rows[i].ImportScope \in DOMAIN p.ModuleRef
        kept == KeptPositions(rows, {i \in DOMAIN rows : resolves(i)})
    IN  [k \in 1..Len(kept) |->
            [modulename |-> p.ModuleRef[rows[kept[k]].ImportScope].Name,
             methodname |-> rows[kept[k]].ImportName,
             token |-> calculate_dotnet_token_value(ImplMapNumber, kept[k])]]

\* every method the binary defines, with its qualified name and token
get_dotnet_managed_methods(p) ==
    LET rows == iter_dotnet_table(p, "MethodDef")
    IN  [i \in 1..Len(rows) |->
            [name |-> format_method(rows[i].TypeNamespace, rows[i].TypeName, rows[i].Name),
             token |-> calculate_dotnet_token_value(MethodDefNumber, i)]]

has_aw_suffix(symbol) == symbol # <<>> /\ symbol[Len(symbol)] \in {"A", "W"}

\* the names a symbol may be resolved under: the exact name, and the A and W forms
\* when the name has no such suffix
generate_symbols(dll, symbol) ==
    IF has_aw_suffix(symbol) THEN <<symbol>>
    ELSE <<symbol, symbol \o <<"A">>, symbol \o <<"W">>>>

\* the printable strings the scanner finds in the raw bytes
common_extract_file_strings(p) ==
    SeqToBag([i \in DOMAIN p.strings |-> Feature("String", p.strings[i].s, p.strings[i].offset)])

(***************************************************************************)
(* The extraction handlers of dotnetfile.py.  Each gives what its generator*)
(* yields and how it ends.                                                 *)
(***************************************************************************)
extract_file_format(p) == Yielded(SetToBag({Feature("Format", FORMAT_DOTNET, 0)}), NoError)

\* the Import features of the unmanaged imports from position k on, in yield order
RECURSIVE UnmanagedImportFeatures(_, _)
UnmanagedImportFeatures(imps, k) ==
    IF k > Len(imps) THEN <<>>
    ELSE LET imp == imps[k]
             names == generate_symbols(imp.modulename, imp.methodname)
         IN  [j \in 1..Len(names) |-> Feature("Import", names[j], imp.token)]
             \o UnmanagedImportFeatures(imps, k + 1)

\* as extract_file_import_names, keeping only the first name of each unmanaged import
extract_file_import_names_first_name(p) ==
    LET methods == get_dotnet_managed_imports(p)
        imps == get_dotnet_unmanaged_imports(p)
        managed == [k \in 1..Len(methods) |->
                       Feature("Import", methods[k].name, methods[k].token)]
        unmanaged == [k \in 1..Len(imps) |->
                         Feature("Import",
                                 generate_symbols(imps[k].modulename, imps[k].methodname)[1],
                                 imps[k].token)]
    IN  Yielded(SeqToBag(managed \o unmanaged), NoError)

extract_file_import_names(p) ==
    LET methods == get_dotnet_managed_imports(p)
        managed == [k \in 1..Len(methods) |->
                       Feature("Import", methods[k].name, methods[k].token)]
    IN  Yielded(SeqToBag(managed
                         \o UnmanagedImportFeatures(get_dotnet_unmanaged_imports(p), 1)),
                NoError)

extract_file_function_names(p) ==
    LET methods == get_dotnet_managed_methods(p)
    IN  Yielded(SeqToBag([k \in 1..Len(methods) |->
                             Feature("FunctionName", methods[k].name, methods[k].token)]),
                NoError)

\* reading a column of an unreadable row raises, and ends the generator
Unreadable(rows) == {i \in DOMAIN rows : ~rows[i].readable}

\* as extract_file_namespace_features, collecting into a list instead of a set
extract_file_namespace_features_list(p) ==
    LET defs == iter_dotnet_table(p, "TypeDef")
        refs == iter_dotnet_table(p, "TypeRef")
        added == [i \in DOMAIN defs |-> defs[i].TypeNamespace]
                     \o [i \in DOMAIN refs |-> refs[i].TypeNamespace]
        namespaces == SelectSeq(added, LAMBDA ns : ns # <<>>)
    IN  IF Unreadable(defs) # {} \/ Unreadable(refs) # {}
        THEN Yielded(EmptyBag, "AttributeError")
        ELSE Yielded(SeqToBag([i \in DOMAIN namespaces |->
                                  Feature("Namespace", namespaces[i], 0)]), NoError)

extract_file_namespace_features(p) ==
    LET defs == iter_dotnet_table(p, "TypeDef")
        refs == iter_dotnet_table(p, "TypeRef")
        added == {defs[i].TypeNamespace : i \in DOMAIN defs}
                     \cup {refs[i].TypeNamespace : i \in DOMAIN refs}
        namespaces == added \ {<<>>}
    IN  IF Unreadable(defs) # {} \/ Unreadable(refs) # {}
        THEN Yielded(EmptyBag, "AttributeError")
        ELSE Yielded(SetToBag({Feature("Namespace", ns, 0) : ns \in namespaces}), NoError)

\* as ClassFeaturesOfTable, the token taking rid instead of rid + 1
ClassFeaturesOfTable_zero_based(rows, number) ==
    LET bad == Unreadable(rows)
        n == IF bad = {} THEN Len(rows) ELSE MinOf(bad) - 1
        rid(i) == i - 1
    IN  Yielded(SeqToBag([i \in 1..n |->
                    Feature("Class", format_name(rows[i].TypeNamespace, rows[i].TypeName),
                            calculate_dotnet_token_value(number, rid(i)))]),
                IF bad = {} THEN NoError ELSE "AttributeError")

\* the Class features of one table: enumerate() counts from 0 and the token takes
\* rid + 1; the walk stops at the first unreadable row
ClassFeaturesOfTable(rows, number) ==
    LET bad == Unreadable(rows)
        n == IF bad = {} THEN Len(rows) ELSE MinOf(bad) - 1
        rid(i) == i - 1
    IN  Yielded(SeqToBag([i \in 1..n |->
                    Feature("Class", format_name(rows[i].TypeNamespace, rows[i].TypeName),
                            calculate_dotnet_token_value(number, rid(i) + 1))]),
                IF bad = {} THEN NoError ELSE "AttributeError")

\* as extract_file_class_features, both walks taking the TypeDef table number
extract_file_class_features_one_number(p) ==
    LET defs == ClassFeaturesOfTable(iter_dotnet_table(p, "TypeDef"), TypeDefNumber)
        refs == ClassFeaturesOfTable(iter_dotnet_table(p, "TypeRef"), TypeDefNumber)
    IN  IF defs.exc # NoError THEN defs
        ELSE Yielded(defs.feats (+) refs.feats, refs.exc)

extract_file_class_features(p) ==
    LET defs == ClassFeaturesOfTable(iter_dotnet_table(p, "TypeDef"), TypeDefNumber)
        refs == ClassFeaturesOfTable(iter_dotnet_table(p, "TypeRef"), TypeRefNumber)
    IN  IF defs.exc # NoError THEN defs
        ELSE Yielded(defs.feats (+) refs.feats, refs.exc)

extract_file_os(p) == Yielded(SetToBag({Feature("OS", OS_ANY, 0)}), NoError)

\* as extract_file_arch, the second test without its "not"
extract_file_arch_flag_not_negated(p) ==
    IF p.CLR_32BITREQUIRED /\ p.PE_TYPE = OPTIONAL_HEADER_MAGIC_PE
    THEN Yielded(SetToBag({Feature("Arch", ARCH_I386, 0)}), NoError)
    ELSE IF p.CLR_32BITREQUIRED /\ p.PE_TYPE = OPTIONAL_HEADER_MAGIC_PE_PLUS
    THEN Yielded(SetToBag({Feature("Arch", ARCH_AMD64, 0)}), NoError)
    ELSE Yielded(SetToBag({Feature("Arch", ARCH_ANY, 0)}), NoError)

extract_file_arch(p) ==
    IF p.CLR_32BITREQUIRED /\ p.PE_TYPE = OPTIONAL_HEADER_MAGIC_PE
    THEN Yielded(SetToBag({Feature("Arch", ARCH_I386, 0)}), NoError)
    ELSE IF ~p.CLR_32BITREQUIRED /\ p.PE_TYPE = OPTIONAL_HEADER_MAGIC_PE_PLUS
    THEN Yielded(SetToBag({Feature("Arch", ARCH_AMD64, 0)}), NoError)
    ELSE Yielded(SetToBag({Feature("Arch", ARCH_ANY, 0)}), NoError)

extract_file_strings(p) == Yielded(common_extract_file_strings(p), NoError)

\* as extract_file_mixed_mode_characteristic_features, without the test
extract_file_mixed_mode_always(p) ==
    Yielded(SetToBag({Feature("Characteristic", MIXED_MODE, 0)}), NoError)

extract_file_mixed_mode_characteristic_features(p) ==
    IF is_dotnet_mixed_mode(p)
    THEN Yielded(SetToBag({Feature("Characteristic", MIXED_MODE, 0)}), NoError)
    ELSE Yielded(EmptyBag, NoError)

FILE_HANDLERS ==
    <<"extract_file_import_names",
      "extract_file_function_names",
      "extract_file_strings",
      "extract_file_format",
      "extract_file_mixed_mode_characteristic_features",
      "extract_file_namespace_features",
      "extract_file_class_features">>

\* as GLOBAL_HANDLERS, with the format handler registered there too
GLOBAL_HANDLERS_with_format ==
    <<"extract_file_format", "extract_file_os", "extract_file_arch">>

GLOBAL_HANDLERS == <<"extract_file_os", "extract_file_arch">>

\* handler(pe=pe) for a handler of the registries
CallHandler(h, p) ==
    CASE h = "extract_file_import_names" -> extract_file_import_names(p)
      [] h = "extract_file_function_names" -> extract_file_function_names(p)
      [] h = "extract_file_strings" -> extract_file_strings(p)
      [] h = "extract_file_format" -> extract_file_format(p)
      [] h = "extract_file_mixed_mode_characteristic_features" ->
             extract_file_mixed_mode_characteristic_features(p)
      [] h = "extract_file_namespace_features" -> extract_file_namespace_features(p)
      [] h = "extract_file_class_features" -> extract_file_class_features(p)
      [] h = "extract_file_os" -> extract_file_os(p)
      [] h = "extract_file_arch" -> extract_file_arch(p)

\* the handlers run in order, each one's features passed on; an exception raised
\* in a handler leaves the loop and ends the stream
RECURSIVE RunHandlers(_, _)
RunHandlers(handlers, p) ==
    IF handlers = <<>> THEN Yielded(EmptyBag, NoError)
    ELSE LET first == CallHandler(Head(handlers), p)
         IN  IF first.exc # NoError THEN first
             ELSE LET rest == RunHandlers(Tail(handlers), p)
                  IN  Yielded(first.feats (+) rest.feats, rest.exc)

extract_file_features(p) == RunHandlers(FILE_HANDLERS, p)

extract_global_features(p) == RunHandlers(GLOBAL_HANDLERS, p)

(***************************************************************************)
(* DotnetFileFeatureExtractor: the outcome of a call is what it returned,  *)
(* the exception it raised, or the stream it yielded.                      *)
(***************************************************************************)
Returned(op, args, ret) ==
    [op |-> op, args |-> args, kind |-> "return", exc |-> NoError, ret |-> ret,
     feats |-> EmptyBag]

Raised(op, args, exc) ==
    [op |-> op, args |-> args, kind |-> "raise", exc |-> exc, ret |-> <<>>,
     feats |-> EmptyBag]

\* args of a stream: whether the stream had been extracted before this call
Streamed(op, repeated, y) ==
    [op |-> op, args |-> <<repeated>>, kind |-> "yield", exc |-> y.exc, ret |-> <<>>,
     feats |-> y.feats]

NotYet == [set |-> FALSE, out |-> Yielded(EmptyBag, NoError)]

\* bytes.rstrip(b"\x00")
RECURSIVE rstrip_nul(_)
rstrip_nul(bytes) ==
    IF bytes # <<>> /\ bytes[Len(bytes)] = 0
    THEN rstrip_nul(SubSeq(bytes, 1, Len(bytes) - 1))
    ELSE bytes

get_base_address(p) == Returned("get_base_address", <<>>, <<0>>)

get_entry_point(p) == Returned("get_entry_point", <<>>, <<p.EntryPointTokenOrRva>>)

is_dotnet_file(p) == Returned("is_dotnet_file", <<>>, <<p.net>>)

is_mixed_mode(p) == Returned("is_mixed_mode", <<>>, <<is_dotnet_mixed_mode(p)>>)

get_runtime_version(p) ==
    Returned("get_runtime_version", <<>>, <<p.MajorRuntimeVersion, p.MinorRuntimeVersion>>)

get_meta_version_string(p) ==
    Returned("get_meta_version_string", <<>>, rstrip_nul(p.Version))

NotImplemented(op, args) == Raised(op, args, "NotImplementedError")

get_functions(p) == NotImplemented("get_functions", <<>>)

extract_function_features(f) == NotImplemented("extract_function_features", <<f>>)

get_basic_blocks(f) == NotImplemented("get_basic_blocks", <<f>>)

extract_basic_block_features(f, bb) ==
    NotImplemented("extract_basic_block_features", <<f, bb>>)

get_instructions(f, bb) == NotImplemented("get_instructions", <<f, bb>>)

extract_insn_features(f, bb, insn) ==
    NotImplemented("extract_insn_features", <<f, bb, insn>>)

is_library_function(va) == NotImplemented("is_library_function", <<va>>)

\* as get_function_name, answering with no name instead of raising
get_function_name_no_name(va) == Returned("get_function_name", <<va>>, <<>>)

get_function_name(va) == NotImplemented("get_function_name", <<va>>)

UnsupportedOps ==
    {"get_functions", "extract_function_features", "get_basic_blocks",
     "extract_basic_block_features", "get_instructions", "extract_insn_features",
     "is_library_function", "get_function_name"}

\* a call that only computes its outcome from the bound binary
Call(outcome) ==
    /\ last' = outcome
    /\ UNCHANGED <<pe, firstFile, firstGlobal>>

\* the first outcome of a stream is kept
Remember(first, y) == IF first.set THEN first ELSE [set |-> TRUE, out |-> y]

GetBaseAddress == Call(get_base_address(pe))

GetEntryPoint == Call(get_entry_point(pe))

IsDotnetFile == Call(is_dotnet_file(pe))

IsMixedMode == Call(is_mixed_mode(pe))

GetRuntimeVersion == Call(get_runtime_version(pe))

GetMetaVersionString == Call(get_meta_version_string(pe))

ExtractGlobalFeatures ==
    LET y == extract_global_features(pe)
    IN  /\ last' = Streamed("extract_global_features", firstGlobal.set, y)
        /\ firstGlobal' = Remember(firstGlobal, y)
        /\ UNCHANGED <<pe, firstFile>>

\* as ExtractFileFeatures, the walk consuming the TypeDef rows it has read
ExtractFileFeatures_consuming ==
    LET y == extract_file_features(pe)
    IN  /\ last' = Streamed("extract_file_features", firstFile.set, y)
        /\ firstFile' = Remember(firstFile, y)
        /\ pe' = [pe EXCEPT !.TypeDef = <<>>]
        /\ UNCHANGED firstGlobal

ExtractFileFeatures ==
    LET y == extract_file_features(pe)
    IN  /\ last' = Streamed("extract_file_features", firstFile.set, y)
        /\ firstFile' = Remember(firstFile, y)
        /\ UNCHANGED <<pe, firstGlobal>>

GetFunctions == Call(get_functions(pe))

ExtractFunctionFeatures == \E f \in Args : Call(extract_function_features(f))

GetBasicBlocks == \E f \in Args : Call(get_basic_blocks(f))

ExtractBasicBlockFeatures == \E f \in Args : Call(extract_basic_block_features(f, f))

GetInstructions == \E f \in Args : Call(get_instructions(f, f))

ExtractInsnFeatures == \E f \in Args : Call(extract_insn_features(f, f, f))

IsLibraryFunction == \E va \in Args : Call(is_library_function(va))

GetFunctionName == \E va \in Args : Call(get_function_name(va))

\* the state after DotnetFileFeatureExtractor(path), for the binaries in bins
Opened(bins) ==
    /\ pe \in bins
    /\ last = Returned("__init__", <<>>, <<>>)
    /\ firstFile = NotYet
    /\ firstGlobal = NotYet

Init == Opened(Binaries({TRUE}))

\* binaries in which a type row may be unreadable
InitAnomaly == Opened(Binaries(BOOLEAN))

Next ==
    \/ GetBaseAddress
    \/ GetEntryPoint
    \/ IsDotnetFile
    \/ IsMixedMode
    \/ GetRuntimeVersion
    \/ GetMetaVersionString
    \/ ExtractGlobalFeatures
    \/ ExtractFileFeatures
    \/ GetFunctions
    \/ ExtractFunctionFeatures
    \/ GetBasicBlocks
    \/ ExtractBasicBlockFeatures
    \/ GetInstructions
    \/ ExtractInsnFeatures
    \/ IsLibraryFunction
    \/ GetFunctionName

Spec == Init /\ [][Next]_vars

SpecAnomaly == InitAnomaly /\ [][Next]_vars

(***************************************************************************)
(* Properties.                                                             *)
(***************************************************************************)
FileStream == last.op = "extract_file_features"

GlobalStream == last.op = "extract_global_features"

\* the features of a kind in a stream, as a set and counted with multiplicity
OfKind(feats, kind) == {f \in BagToSet(feats) : f.kind = kind}

CountKind(feats, kind) == BagCardinality([f \in OfKind(feats, kind) |-> feats[f]])

CountAt(feats, kind, addr) ==
    BagCardinality([f \in {g \in OfKind(feats, kind) : g.addr = addr} |-> feats[f]])

TableOf(token) == token \div TokenShift

RowOf(token) == token % TokenShift

\* C1: the global stream holds exactly one Arch feature, at address 0: i386 when
\* CLR_32BITREQUIRED is set and the header is 32-bit, amd64 when the flag is clear
\* and the header is 64-bit, "any" for every other flag and header kind.
ArchInference ==
    GlobalStream =>
        /\ CountKind(last.feats, "Arch") = 1
        /\ \A f \in OfKind(last.feats, "Arch") :
            /\ f.addr = 0
            /\ (pe.CLR_32BITREQUIRED /\ pe.PE_TYPE = OPTIONAL_HEADER_MAGIC_PE)
                   => f.value = ARCH_I386
            /\ (~pe.CLR_32BITREQUIRED /\ pe.PE_TYPE = OPTIONAL_HEADER_MAGIC_PE_PLUS)
                   => f.value = ARCH_AMD64
            /\ (pe.CLR_32BITREQUIRED /\ pe.PE_TYPE # OPTIONAL_HEADER_MAGIC_PE)
                   => f.value = ARCH_ANY
            /\ (~pe.CLR_32BITREQUIRED /\ pe.PE_TYPE # OPTIONAL_HEADER_MAGIC_PE_PLUS)
                   => f.value = ARCH_ANY

ArchInferenceWitness ==
    /\ GlobalStream
    /\ ~pe.CLR_32BITREQUIRED
    /\ pe.PE_TYPE = OPTIONAL_HEADER_MAGIC_PE_PLUS
    /\ CopiesIn(Feature("Arch", ARCH_AMD64, 0), last.feats) = 1

\* the non-empty namespaces of the rows of the TypeDef and TypeRef tables
TableNamespaces ==
    ({pe.TypeDef[i].TypeNamespace : i \in DOMAIN pe.TypeDef}
        \cup {pe.TypeRef[i].TypeNamespace : i \in DOMAIN pe.TypeRef}) \ {<<>>}

\* C2: the file stream holds exactly one Namespace feature for each distinct
\* non-empty TypeNamespace of the TypeDef and TypeRef rows, none for the empty
\* namespace, and each of them at address 0.
NamespacesOncePerName ==
    FileStream =>
        /\ {f.value : f \in OfKind(last.feats, "Namespace")} = TableNamespaces
        /\ CountKind(last.feats, "Namespace") = Cardinality(TableNamespaces)
        /\ \A f \in OfKind(last.feats, "Namespace") : f.addr = 0 /\ f.value # <<>>

NamespacesOncePerNameWitness ==
    /\ FileStream
    /\ \E i \in DOMAIN pe.TypeDef : \E j \in DOMAIN pe.TypeRef :
          /\ pe.TypeDef[i].TypeNamespace = pe.TypeRef[j].TypeNamespace
          /\ CopiesIn(Feature("Namespace", pe.TypeDef[i].TypeNamespace, 0), last.feats) = 1

\* C3: the file stream holds one Class feature for each TypeDef row and each
\* TypeRef row and no other; the row at position i of TypeDef carries the token
\* (TypeDefNumber << 24) | i, the row at position i of TypeRef the token
\* (TypeRefNumber << 24) | i, and the class tokens are pairwise distinct.
ClassPerRowWithOwnToken ==
    FileStream =>
        /\ last.exc = NoError
        /\ CountKind(last.feats, "Class") = Len(pe.TypeDef) + Len(pe.TypeRef)
        /\ \A i \in DOMAIN pe.TypeDef :
              CountAt(last.feats, "Class", TypeDefNumber * TokenShift + i) = 1
        /\ \A i \in DOMAIN pe.TypeRef :
              CountAt(last.feats, "Class", TypeRefNumber * TokenShift + i) = 1
        /\ Cardinality({f.addr : f \in OfKind(last.feats, "Class")})
               = CountKind(last.feats, "Class")

ClassPerRowWithOwnTokenWitness ==
    /\ FileStream
    /\ Len(pe.TypeDef) >= 1
    /\ Len(pe.TypeRef) >= 1
    /\ CountKind(last.feats, "Class") = 2

\* the token names a row that exists in the TypeDef or the TypeRef table
DecodesToRow(token) ==
    /\ RowOf(token) >= 1
    /\ \/ TableOf(token) = TypeDefNumber /\ RowOf(token) \in DOMAIN pe.TypeDef
       \/ TableOf(token) = TypeRefNumber /\ RowOf(token) \in DOMAIN pe.TypeRef

\* C4 as stated: the token of every Class feature and of every Namespace feature
\* of the file stream decodes to a row ordinal >= 1 that exists in its table.
ClassAndNamespaceTokensDecode ==
    FileStream =>
        \A f \in OfKind(last.feats, "Class") \cup OfKind(last.feats, "Namespace") :
            DecodesToRow(f.addr)

\* C4, amended: the token of every Class feature of the file stream decodes to a
\* row ordinal >= 1 that exists in the table it names; a Namespace feature
\* carries the address 0, which is no token.
ClassTokensDecode ==
    FileStream =>
        /\ \A f \in OfKind(last.feats, "Class") : DecodesToRow(f.addr)
        /\ \A f \in OfKind(last.feats, "Namespace") : f.addr = 0 /\ ~DecodesToRow(f.addr)

ClassTokensDecodeWitness ==
    /\ FileStream
    /\ OfKind(last.feats, "Namespace") # {}
    /\ \E f \in OfKind(last.feats, "Class") :
          TableOf(f.addr) = TypeRefNumber /\ RowOf(f.addr) = 2

\* C5: each of the eight function, basic block and instruction level operations
\* ends by raising NotImplementedError, whatever the state and the argument, and
\* returns nothing.
FunctionLevelOperationsRaise ==
    last.op \in UnsupportedOps =>
        /\ last.kind = "raise"
        /\ last.exc = "NotImplementedError"
        /\ last.ret = <<>>
        /\ last.feats = EmptyBag

FunctionLevelOperationsRaiseWitness ==
    /\ last.op = "get_function_name"
    /\ last.kind = "raise"
    /\ firstFile.set

\* the number of names generated for the unmanaged imports from position k on
RECURSIVE NamesFrom(_, _)
NamesFrom(imps, k) ==
    IF k > Len(imps) THEN 0
    ELSE Len(generate_symbols(imps[k].modulename, imps[k].methodname))
             + NamesFrom(imps, k + 1)

\* C6: every name generated for an unmanaged import is an Import feature of the
\* file stream with that import's token, once; the Import features carrying an
\* unmanaged import's token are as many as its names; every managed import is
\* one Import feature with its own token; and there is no other Import feature.
ImportNamesShareToken ==
    FileStream =>
        LET imps == get_dotnet_unmanaged_imports(pe)
            methods == get_dotnet_managed_imports(pe)
        IN  /\ \A k \in DOMAIN imps :
                  LET names == generate_symbols(imps[k].modulename, imps[k].methodname)
                  IN  /\ \A j \in DOMAIN names :
                            CopiesIn(Feature("Import", names[j], imps[k].token),
                                     last.feats) = 1
                      /\ CountAt(last.feats, "Import", imps[k].token) = Len(names)
            /\ \A k \in DOMAIN methods :
                  /\ CopiesIn(Feature("Import", methods[k].name, methods[k].token),
                              last.feats) = 1
                  /\ CountAt(last.feats, "Import", methods[k].token) = 1
            /\ CountKind(last.feats, "Import") = Len(methods) + NamesFrom(imps, 1)

ImportNamesShareTokenWitness ==
    /\ FileStream
    /\ Len(get_dotnet_unmanaged_imports(pe)) = 2
    /\ CountAt(last.feats, "Import", ImplMapNumber * TokenShift + 1) = 3
    /\ CountAt(last.feats, "Import", ImplMapNumber * TokenShift + 2) = 1

\* C7: the file stream holds one "mixed mode" Characteristic, at address 0, when
\* the IL-only flag is absent and none when it is set; is_mixed_mode returns true
\* exactly when the flag is absent.
MixedModeMarker ==
    /\ FileStream =>
          /\ CountKind(last.feats, "Characteristic") = (IF pe.CLR_ILONLY THEN 0 ELSE 1)
          /\ \A f \in OfKind(last.feats, "Characteristic") :
                f = Feature("Characteristic", MIXED_MODE, 0)
    /\ last.op = "is_mixed_mode" => last.ret = <<~pe.CLR_ILONLY>>

MixedModeMarkerWitness ==
    /\ FileStream
    /\ ~pe.CLR_ILONLY
    /\ CopiesIn(Feature("Characteristic", MIXED_MODE, 0), last.feats) = 1

\* C8 as stated: a row that raises while a rule reads it is skipped, so the file
\* stream ends without an exception and holds the Class feature of every other
\* TypeDef and TypeRef row.
RowAnomaliesAbsorbed ==
    FileStream =>
        /\ last.exc = NoError
        /\ \A i \in DOMAIN pe.TypeDef :
              pe.TypeDef[i].readable
                  => CountAt(last.feats, "Class", TypeDefNumber * TokenShift + i) = 1
        /\ \A i \in DOMAIN pe.TypeRef :
              pe.TypeRef[i].readable
                  => CountAt(last.feats, "Class", TypeRefNumber * TokenShift + i) = 1

MarkerKinds == {"Format", "OS", "Arch"}

\* C9 as stated: the global stream holds the format, OS and arch markers (one OS
\* feature, tagged "any", and one Arch feature) and nothing else, and the file
\* stream holds no format, OS or arch marker.
MarkersOnlyInGlobalStream ==
    /\ GlobalStream =>
          /\ \A f \in BagToSet(last.feats) : f.kind \in MarkerKinds
          /\ CountKind(last.feats, "Format") = 1
          /\ CountKind(last.feats, "OS") = 1
          /\ CopiesIn(Feature("OS", OS_ANY, 0), last.feats) = 1
          /\ CountKind(last.feats, "Arch") = 1
    /\ FileStream => \A f \in BagToSet(last.feats) : f.kind \notin MarkerKinds

\* C9, amended: the global stream holds one OS feature, tagged "any", and one
\* Arch feature and nothing else; the file stream holds the format marker, once
\* and at address 0, and no OS or Arch feature.
OsAndArchOnlyInGlobalStream ==
    /\ GlobalStream =>
          /\ \A f \in BagToSet(last.feats) : f.kind \in {"OS", "Arch"}
          /\ CountKind(last.feats, "OS") = 1
          /\ CopiesIn(Feature("OS", OS_ANY, 0), last.feats) = 1
          /\ CountKind(last.feats, "Arch") = 1
    /\ FileStream =>
          /\ \A f \in BagToSet(last.feats) : f.kind \notin {"OS", "Arch"}
          /\ CountKind(last.feats, "Format") = 1
          /\ CopiesIn(Feature("Format", FORMAT_DOTNET, 0), last.feats) = 1

OsAndArchOnlyInGlobalStreamWitness ==
    /\ FileStream
    /\ firstGlobal.set
    /\ CopiesIn(Feature("Format", FORMAT_DOTNET, 0), last.feats) = 1
    /\ CountKind(firstGlobal.out.feats, "Format") = 0

\* every stream equals the first one extracted, and the base address is 0
SameAsFirst ==
    /\ FileStream => Yielded(last.feats, last.exc) = firstFile.out
    /\ GlobalStream => Yielded(last.feats, last.exc) = firstGlobal.out
    /\ last.op = "get_base_address" => last.ret = <<0>>

\* C10: no facade operation changes the bound binary, and after any calls a
\* further extract_file_features or extract_global_features yields the bag of
\* features its first call yielded, and get_base_address returns 0.
ReadOnlyAfterOpen == [](SameAsFirst) /\ [][pe' = pe]_vars

ReadOnlyAfterOpenWitness ==
    /\ FileStream
    /\ last.args = <<TRUE>>
    /\ firstGlobal.set
    /\ CountKind(last.feats, "Class") = 2
    /\ Yielded(last.feats, last.exc) = firstFile.out

====
